---- MODULE Spec2Model ----
(***************************************************************************)
(* A model of the two derivative-free optimisers of reside-ic/optimise:    *)
(* the Nelder-Mead Simplex class (src/src/simplex.ts) and the Brent class  *)
(* (src/src/control.ts), together with the objective wrappers of           *)
(* src/src/utils.ts (protect, invert) and checkResult.                     *)
(*                                                                         *)
(* Numbers.  Simplex coordinates and tolerances are fixed-point integers   *)
(* in units of 1/Unit; Unit is a power of four large enough that every     *)
(* halving the moves make within MaxSimplexSteps steps is exact, as it is  *)
(* in IEEE doubles for such small dyadic inputs.  Objective values are     *)
(* small integers, plus the value Infinity that protect() produces.        *)
(*                                                                         *)
(* The objective.  The caller's target is a pure function: one of a few   *)
(* base functions, changed at up to MaxOverrides of the locations the      *)
(* engine evaluates (to a throw, a low value or a high value).  memo holds *)
(* the outcome at every location evaluated so far, and an evaluation at a  *)
(* location already in memo repeats the recorded outcome.                  *)
(***************************************************************************)
EXTENDS Integers, Sequences, FiniteSets, TLC

\* ------------------------------------------------------------ bounds

\* step() calls a Simplex engine may receive
MaxSimplexSteps == 4

\* locations at which the target departs from its base function
MaxOverrides == 1

\* ------------------------------------------------------- number model

\* fixed-point scale of Simplex coordinates and tolerances
Unit == 4 ^ MaxSimplexSteps

\* IEEE +Infinity, above every finite value of the model
Infinity == 1000000

Abs(x) == IF x < 0 THEN -x ELSE x

Max(x, y) == IF x >= y THEN x ELSE y

\* null, the data of a bare-number result
Null == <<>>

\* ---------------------------------------------------------- objective

\* the targets the caller may pass to Simplex: a base function of the
\* location, returning a bare number or a Result record with a payload
SimplexTargets ==
    {[base |-> "flat", rich |-> FALSE],
     [base |-> "deep", rich |-> FALSE],
     [base |-> "ridge", rich |-> FALSE],
     [base |-> "bowl", rich |-> TRUE],
     [base |-> "slope", rich |-> TRUE]}

RECURSIVE SumOver(_, _)
SumOver(f, i) == IF i = 0 THEN 0 ELSE SumOver(f, i - 1) + f[i]

\* the base function's value (in units of 1/Unit) at a Simplex location
BaseValue(base, location) ==
    IF base = "flat"
    THEN Unit
    ELSE IF base = "deep"
    THEN -3 * Unit
    ELSE IF base = "ridge"
    THEN 2 * Unit - 2 * Abs(location[1] - Unit \div 2)
    ELSE IF base = "bowl"
    THEN SumOver([i \in DOMAIN location |-> Abs(location[i] - Unit)], Len(location))
    ELSE SumOver(location, Len(location))

\* how the target may depart from its base function at one new location;
\* Default is no departure
Default == [special |-> FALSE, threw |-> FALSE, value |-> 0]

Overrides ==
    {[special |-> TRUE, threw |-> TRUE, value |-> 0],
     [special |-> TRUE, threw |-> FALSE, value |-> -Unit],
     [special |-> TRUE, threw |-> FALSE, value |-> 5 * Unit]}

Choices == {Default} \cup Overrides

Known(known, location) == {m \in known : m.location = location}

\* what the target does at location: what it did there before, else the
\* departure chosen, else its base function
Outcome(known, location, c, base) ==
    IF Known(known, location) # {}
    THEN CHOOSE m \in Known(known, location) : TRUE
    ELSE [location |-> location, threw |-> c.threw, special |-> c.special,
          value |-> IF c.special THEN c.value ELSE base]

\* the payload a rich target attaches to its result at a location
DataAt(location) == <<"data", location>>

\* target(location): a throw, a bare number, or a Result record (a new one
\* at each call)
target(rich, o) ==
    IF o.threw
    THEN [threw |-> TRUE, isNumber |-> FALSE, value |-> 0, data |-> Null]
    ELSE IF rich
    THEN [threw |-> FALSE, isNumber |-> FALSE, value |-> o.value,
          data |-> DataAt(o.location)]
    ELSE [threw |-> FALSE, isNumber |-> TRUE, value |-> o.value, data |-> Null]

\* a checkResult that keeps the value only
checkResultDropsData(value) == [data |-> Null, value |-> value.value]

checkResult(value) ==
    IF value.isNumber
    THEN [data |-> Null, value |-> value.value]
    ELSE [data |-> value.data, value |-> value.value]

\* a protect that lets the failure through
protectRethrows(r) == r

protect(r) ==
    IF r.threw
    THEN [threw |-> FALSE, isNumber |-> TRUE, value |-> Infinity, data |-> Null]
    ELSE r

Range(s) == {s[k] : k \in DOMAIN s}

\* ------------------------------------------------------------ control

withDefault(control, field, y) ==
    IF field \in DOMAIN control THEN control[field] ELSE y

\* the message of the Error the control functions throw
ToleranceError == "Invalid control parameter: 'tolerance' must be strictly positive"

\* the exception of a target that throws, whatever it is
TargetError == "thrown by the target"

simplexControl(control) ==
    LET ret == [deltaNonZero |-> control.deltaNonZero,
                deltaZero |-> control.deltaZero,
                errorOnFailure |-> withDefault(control, "errorOnFailure", FALSE),
                tolerance |-> control.tolerance]
    IN  IF ret.tolerance <= 0
        THEN [threw |-> TRUE, control |-> ret, error |-> ToleranceError]
        ELSE [threw |-> FALSE, control |-> ret]

\* ------------------------------------------------------------ Simplex

rho == 1

chi == 2

\* psi = -0.5 and sigma = 0.5, held as twice their value
psiTimes2 == -1

sigmaTimes2 == 1

\* weightedSum(w, v1, v2) with w given as w2 = 2 * w
weightedSum(w2, v1, v2) ==
    [j \in DOMAIN v1 |-> ((2 + w2) * v1[j] - w2 * v2[j]) \div 2]

\* this._target(location) for a call whose outcome is o
Simplex_target(th, o) ==
    IF th.protected
    THEN protect(target(th.target.rich, o))
    ELSE target(th.target.rich, o)

\* a _point that hands out the same id again and again
Simplex_pointOfUncounted(th, location, o, res) ==
    IF res.threw
    THEN [threw |-> TRUE, this |-> th, call |-> o, point |-> Null]
    ELSE [threw |-> FALSE, this |-> th, call |-> o,
          point |-> [data |-> checkResult(res).data, id |-> th.id,
                     location |-> location, value |-> checkResult(res).value]]

\* the rest of this._point(location) once this._target has returned res or
\* thrown: id is this._id++, evaluated after the call
Simplex_pointOf(th, location, o, res) ==
    IF res.threw
    THEN [threw |-> TRUE, this |-> th, call |-> o, point |-> Null]
    ELSE [threw |-> FALSE,
          this |-> [th EXCEPT !.id = @ + 1],
          call |-> o,
          point |-> [data |-> checkResult(res).data, id |-> th.id,
                     location |-> location, value |-> checkResult(res).value]]

\* this._point(location): one call of this._target; known is what the
\* target is known to do, c the departure it makes at a new location
Simplex_point(th, known, location, c) ==
    Simplex_pointOf(
        th, location,
        Outcome(known, location, c, BaseValue(th.target.base, location)),
        Simplex_target(
            th, Outcome(known, location, c, BaseValue(th.target.base, location))))

\* Array.prototype.sort is stable; the comparator is a.value - b.value, and
\* Infinity - Infinity = NaN counts as 0 (equal)
RECURSIVE InsertByValue(_, _)
InsertByValue(sorted, p) ==
    IF sorted = <<>>
    THEN <<p>>
    ELSE LET lst == sorted[Len(sorted)]
         IN  IF lst.value - p.value > 0
             THEN Append(InsertByValue(SubSeq(sorted, 1, Len(sorted) - 1), p), lst)
             ELSE Append(sorted, p)

RECURSIVE SortByValue(_)
SortByValue(s) ==
    IF s = <<>>
    THEN <<>>
    ELSE InsertByValue(SortByValue(SubSeq(s, 1, Len(s) - 1)), s[Len(s)])

\* a _sort that leaves the points where they are
Simplex_sortSkipped(th) == th

Simplex_sort(th) == [th EXCEPT !.simplex = SortByValue(@)]

RECURSIVE SumCoord(_, _, _)
SumCoord(simplex, j, i) ==
    IF j = 0 THEN 0 ELSE SumCoord(simplex, j - 1, i) + simplex[j].location[i]

Simplex_centroid(th) ==
    [i \in 1..th.n |-> SumCoord(th.simplex, th.n, i) \div th.n]

\* an _update that puts the point in the first slot
Simplex_updateReplacesBest(th, other) ==
    Simplex_sort([th EXCEPT !.simplex[1] = other])

\* an _update that puts the point in the last slot and does not sort
Simplex_updateUnsorted(th, other) == [th EXCEPT !.simplex[th.n + 1] = other]

Simplex_update(th, other) ==
    Simplex_sort([th EXCEPT !.simplex[th.n + 1] = other])

Simplex_reflect(th, known, point, centroid, c) ==
    Simplex_point(th, known, weightedSum(2 * rho, centroid, point.location), c)

Simplex_expand(th, known, point, centroid, c) ==
    Simplex_point(th, known, weightedSum(2 * chi, centroid, point.location), c)

Simplex_contractInside(th, known, point, centroid, c) ==
    Simplex_point(th, known, weightedSum(psiTimes2, centroid, point.location), c)

Simplex_contractOutside(th, known, point, centroid, c) ==
    Simplex_point(th, known,
                  weightedSum(-psiTimes2 * rho, centroid, point.location), c)

Simplex_shrink(th, known, point, best, c) ==
    Simplex_point(th, known, weightedSum(-sigmaTimes2, best, point.location), c)

\* worst.value - best.value < tolerance, in IEEE arithmetic
AbsoluteSame(worst, best, tolerance) ==
    IF worst = Infinity
    THEN FALSE
    ELSE IF best = Infinity
    THEN TRUE
    ELSE worst - best < tolerance

\* 1 - best.value / worst.value < tolerance, in IEEE arithmetic
RelativeSame(worst, best, tolerance) ==
    IF worst = Infinity
    THEN best # Infinity /\ Unit < tolerance
    ELSE IF best = Infinity
    THEN worst >= 0
    ELSE IF worst > 0
    THEN (worst - best) * Unit < tolerance * worst
    ELSE IF worst < 0
    THEN (worst - best) * Unit > tolerance * worst
    ELSE best > 0

RECURSIVE MaxDiff(_, _, _)
MaxDiff(a, b, i) ==
    IF i = 0 THEN 0 ELSE Max(MaxDiff(a, b, i - 1), Abs(a[i] - b[i]))

Simplex_isConverged(th) ==
    LET tolerance == th.control.tolerance
        best == th.simplex[1]
        worst == th.simplex[th.n + 1]
        objectiveSame == \/ AbsoluteSame(worst.value, best.value, tolerance)
                         \/ RelativeSame(worst.value, best.value, tolerance)
        maxDiff == MaxDiff(best.location, worst.location, th.n)
        hasShrunk == maxDiff < tolerance
    IN  hasShrunk /\ objectiveSame

\* the constructor's loop over the n perturbed points, then the sort;
\* Simplex_perturbed is the loop body once the point pt has been evaluated
RECURSIVE Simplex_perturb(_, _, _, _, _, _)
RECURSIVE Simplex_perturbed(_, _, _, _, _, _)
Simplex_perturbed(known, location, i, outs, calls, pt) ==
    IF pt.threw
    THEN [threw |-> TRUE, error |-> TargetError, this |-> pt.this,
          calls |-> Append(calls, pt.call)]
    ELSE Simplex_perturb([pt.this EXCEPT !.simplex = Append(@, pt.point)],
                         known \cup {pt.call}, location, i + 1, outs,
                         Append(calls, pt.call))

Simplex_perturb(th, known, location, i, outs, calls) ==
    IF i > th.n
    THEN [threw |-> FALSE, this |-> Simplex_sort(th), calls |-> calls]
    ELSE Simplex_perturbed(
             known, location, i, outs, calls,
             Simplex_point(th, known,
                           [location EXCEPT ![i] =
                               IF @ # 0
                               THEN (@ * (Unit + th.control.deltaNonZero)) \div Unit
                               ELSE th.control.deltaZero],
                           outs[i + 1]))

\* a constructor that protects the target before the first evaluation
Simplex_fieldsProtected(tgt, location, control) ==
    [target |-> tgt, protected |-> TRUE, control |-> control,
     n |-> Len(location), simplex |-> <<>>,
     iterations |-> 0, id |-> 0, converged |-> FALSE]

\* the fields as the constructor sets them before the first evaluation:
\* this._target is the caller's target, unprotected
Simplex_fields(tgt, location, control) ==
    [target |-> tgt, protected |-> FALSE, control |-> control,
     n |-> Len(location), simplex |-> <<>>,
     iterations |-> 0, id |-> 0, converged |-> FALSE]

\* a constructor that protects the target only when the caller asks for it
Simplex_protectsOnRequest(control) ==
    "errorOnFailure" \in DOMAIN control /\ ~ control.errorOnFailure

\* if (!control.errorOnFailure): whether the constructor protects the target
\* once the first point has been evaluated
Simplex_protects(control) ==
    ~ ("errorOnFailure" \in DOMAIN control /\ control.errorOnFailure)

\* the constructor once the first point has been evaluated
Simplex_newFrom(location, control, known, outs, first) ==
    IF first.threw
    THEN [threw |-> TRUE, error |-> TargetError, this |-> first.this,
          calls |-> <<first.call>>]
    ELSE Simplex_perturb([first.this EXCEPT
                             !.simplex = <<first.point>>,
                             !.protected = Simplex_protects(control)],
                         known \cup {first.call}, location, 1, outs,
                         <<first.call>>)

\* new Simplex(target, location, control); outs are the target's departures
\* at the n + 1 points of the initial simplex, in the order they are evaluated
Simplex_new(tgt, location, control, known, outs) ==
    IF simplexControl(control).threw
    THEN [threw |-> TRUE, error |-> simplexControl(control).error,
          this |-> Simplex_fields(tgt, location, simplexControl(control).control),
          calls |-> <<>>]
    ELSE Simplex_newFrom(
             location, control, known, outs,
             Simplex_point(
                 Simplex_fields(tgt, location, simplexControl(control).control),
                 known, location, outs[1]))

\* a shrink that replaces slot 1 only
Simplex_shrunkOnly(calls, pt) ==
    IF pt.threw
    THEN [threw |-> TRUE, this |-> pt.this, calls |-> Append(calls, pt.call)]
    ELSE [threw |-> FALSE,
          this |-> Simplex_sort([pt.this EXCEPT !.simplex[2] = pt.point]),
          calls |-> Append(calls, pt.call)]

Simplex_shrinkFirst(th, known, best, i, outs, calls) ==
    Simplex_shrunkOnly(
        calls, Simplex_shrink(th, known, th.simplex[2], best, outs[3]))

\* the shrink loop of step(): slots 1..n are replaced one at a time, and the
\* simplex is sorted once all are; Simplex_shrunk is the loop body once the
\* point pt has been evaluated
RECURSIVE Simplex_shrinkAll(_, _, _, _, _, _)
RECURSIVE Simplex_shrunk(_, _, _, _, _, _)
Simplex_shrunk(known, best, i, outs, calls, pt) ==
    IF pt.threw
    THEN [threw |-> TRUE, this |-> pt.this, calls |-> Append(calls, pt.call)]
    ELSE Simplex_shrinkAll([pt.this EXCEPT !.simplex[i + 1] = pt.point],
                           known \cup {pt.call}, best, i + 1, outs,
                           Append(calls, pt.call))

Simplex_shrinkAll(th, known, best, i, outs, calls) ==
    IF i > th.n
    THEN [threw |-> FALSE, this |-> Simplex_sort(th), calls |-> calls]
    ELSE Simplex_shrunk(
             known, best, i, outs, calls,
             Simplex_shrink(th, known, th.simplex[i + 1], best, outs[i + 2]))

\* step() once the shrink loop has ended, by a throw or by the sort
Simplex_afterShrink(sh) ==
    [ret |-> IF sh.threw THEN "throw" ELSE "false", move |-> "shrink",
     this |-> sh.this, calls |-> sh.calls]

\* an expansion that is adopted whatever its value
Simplex_afterExpandAdopts(reflected, expanded) ==
    IF expanded.threw
    THEN [ret |-> "throw", move |-> "expand", this |-> expanded.this,
          calls |-> <<reflected.call, expanded.call>>]
    ELSE [ret |-> "false", move |-> "expand",
          this |-> Simplex_update(expanded.this, expanded.point),
          calls |-> <<reflected.call, expanded.call>>]

\* step() once the expanded point has been evaluated
Simplex_afterExpand(reflected, expanded) ==
    IF expanded.threw
    THEN [ret |-> "throw", move |-> "expand", this |-> expanded.this,
          calls |-> <<reflected.call, expanded.call>>]
    ELSE [ret |-> "false", move |-> "expand",
          this |-> Simplex_update(expanded.this,
                       IF expanded.point.value < reflected.point.value
                       THEN expanded.point ELSE reflected.point),
          calls |-> <<reflected.call, expanded.call>>]

\* step() once the contracted point has been evaluated
Simplex_afterContract(t1, known, outs, reflected, contracted) ==
    IF contracted.threw
    THEN [ret |-> "throw", move |-> "contract", this |-> contracted.this,
          calls |-> <<reflected.call, contracted.call>>]
    ELSE IF contracted.point.value < t1.simplex[t1.n + 1].value
    THEN [ret |-> "false", move |-> "contract",
          this |-> Simplex_update(contracted.this, contracted.point),
          calls |-> <<reflected.call, contracted.call>>]
    ELSE Simplex_afterShrink(
             Simplex_shrinkAll(contracted.this,
                               known \cup {reflected.call, contracted.call},
                               t1.simplex[1].location, 1, outs,
                               <<reflected.call, contracted.call>>))

\* step() once the reflected point has been evaluated
Simplex_afterReflect(t1, known, outs, reflected) ==
    IF reflected.threw
    THEN [ret |-> "throw", move |-> "reflect", this |-> reflected.this,
          calls |-> <<reflected.call>>]
    ELSE IF reflected.point.value < t1.simplex[1].value
    THEN Simplex_afterExpand(
             reflected,
             Simplex_expand(reflected.this, known \cup {reflected.call},
                            t1.simplex[t1.n + 1], Simplex_centroid(t1), outs[2]))
    ELSE IF reflected.point.value >= t1.simplex[t1.n].value
    THEN Simplex_afterContract(
             t1, known, outs, reflected,
             IF reflected.point.value > t1.simplex[t1.n + 1].value
             THEN Simplex_contractInside(
                      reflected.this, known \cup {reflected.call},
                      t1.simplex[t1.n + 1], Simplex_centroid(t1), outs[2])
             ELSE Simplex_contractOutside(
                      reflected.this, known \cup {reflected.call},
                      t1.simplex[t1.n + 1], Simplex_centroid(t1), outs[2]))
    ELSE [ret |-> "false", move |-> "reflect",
          this |-> Simplex_update(reflected.this, reflected.point),
          calls |-> <<reflected.call>>]

\* step() when the simplex has not converged: reflect the worst point
\* (simplex[n + 1]) past the centroid, then expand, contract or shrink
Simplex_move(t1, known, outs) ==
    Simplex_afterReflect(
        t1, known, outs,
        Simplex_reflect(t1, known, t1.simplex[t1.n + 1], Simplex_centroid(t1),
                        outs[1]))

\* a step() that re-opens the search of an engine already converged
Simplex_stepReopens(th, known, outs) ==
    LET t1 == [th EXCEPT !.iterations = @ + 1]
    IN  IF ~ th.converged /\ Simplex_isConverged(t1)
        THEN [ret |-> "true", move |-> "none",
              this |-> [t1 EXCEPT !.converged = TRUE], calls |-> <<>>]
        ELSE Simplex_move(t1, known, outs)

Simplex_step(th, known, outs) ==
    LET t1 == [th EXCEPT !.iterations = @ + 1]
    IN  IF Simplex_isConverged(t1)
        THEN [ret |-> "true", move |-> "none",
              this |-> [t1 EXCEPT !.converged = TRUE], calls |-> <<>>]
        ELSE Simplex_move(t1, known, outs)

Simplex_result(th) ==
    LET best == th.simplex[1]
    IN  [converged |-> th.converged, data |-> best.data, evaluations |-> th.id,
         iterations |-> th.iterations, location |-> best.location,
         value |-> best.value]

\* -------------------------------------------------------------- Brent

\* fixed-point scale of Brent locations, tolerances, d and e
BrentUnit == 100

\* the targets the caller may pass to Brent
BrentTargets ==
    {[base |-> "parabola", rich |-> TRUE],
     [base |-> "square", rich |-> FALSE],
     [base |-> "flat", rich |-> FALSE],
     [base |-> "slope", rich |-> FALSE]}

\* the base function's value at a Brent location, in units of 1/BrentUnit
\* ("square": of 1/BrentUnit^2, which makes it an exact parabola)
BaseValue1(base, location) ==
    IF base = "parabola"
    THEN ((location - BrentUnit) * (location - BrentUnit)) \div BrentUnit
    ELSE IF base = "square"
    THEN (location - BrentUnit) * (location - BrentUnit)
    ELSE IF base = "flat"
    THEN BrentUnit
    ELSE location

Overrides1 ==
    {[special |-> TRUE, threw |-> TRUE, value |-> 0],
     [special |-> TRUE, threw |-> FALSE, value |-> -BrentUnit],
     [special |-> TRUE, threw |-> FALSE, value |-> 5 * BrentUnit]}

\* a quotient rounded to the nearest integer, as a double operation is
\* rounded to the nearest double
RoundDiv(a, b) ==
    IF a >= 0 THEN (2 * a + b) \div (2 * b) ELSE -((2 * (-a) + b) \div (2 * b))

\* 0.5 * (3 - Math.sqrt(5)) = 0.381966...
squaredInverseGoldenRatioNum == 381966

squaredInverseGoldenRatioDen == 1000000

timesSquaredInverseGoldenRatio(z) ==
    RoundDiv(squaredInverseGoldenRatioNum * z, squaredInverseGoldenRatioDen)

\* Math.sqrt(Number.EPSILON) = 1.49e-8
sqrtMachineEpsNum == 15

sqrtMachineEpsDen == 1000000000

timesSqrtMachineEps(z) == RoundDiv(sqrtMachineEpsNum * z, sqrtMachineEpsDen)

\* Math.sign
Sign(b) == IF b > 0 THEN 1 ELSE IF b < 0 THEN -1 ELSE 0

copysign(a, b) == Sign(b) * a

invert(r) ==
    IF r.threw
    THEN r
    ELSE LET res == checkResult(r)
         IN  [threw |-> FALSE, isNumber |-> FALSE, value |-> -res.value,
              data |-> res.data]

\* a brentControl that accepts any tolerance
brentControlUnchecked(control) ==
    [threw |-> FALSE,
     control |-> [findMax |-> withDefault(control, "findMax", FALSE),
                  tolerance |-> control.tolerance]]

brentControl(control) ==
    LET ret == [findMax |-> withDefault(control, "findMax", FALSE),
                tolerance |-> control.tolerance]
    IN  IF ret.tolerance <= 0
        THEN [threw |-> TRUE, control |-> ret, error |-> ToleranceError]
        ELSE [threw |-> FALSE, control |-> ret]

\* this._target(location) for a call whose outcome is o
Brent_target(th, o) ==
    IF th.control.findMax
    THEN invert(target(th.target.rich, o))
    ELSE target(th.target.rich, o)

\* the rest of this._point(location) once this._target has returned res or
\* thrown; this._evaluations++ comes before the call
Brent_pointOf(th, location, o, res) ==
    IF res.threw
    THEN [threw |-> TRUE, this |-> [th EXCEPT !.evaluations = @ + 1],
          call |-> o, point |-> Null]
    ELSE [threw |-> FALSE, this |-> [th EXCEPT !.evaluations = @ + 1],
          call |-> o,
          point |-> [data |-> checkResult(res).data, location |-> location,
                     value |-> checkResult(res).value]]

\* this._point(location): this._evaluations++, then one call of this._target
Brent_point(th, known, location, c) ==
    Brent_pointOf(
        th, location,
        Outcome(known, location, c, BaseValue1(th.target.base, location)),
        Brent_target(
            th, Outcome(known, location, c, BaseValue1(th.target.base, location))))

\* the fields of a Brent before its first evaluation
Brent_fields(tgt, control) ==
    [target |-> tgt, control |-> control, state |-> Null,
     converged |-> FALSE, evaluations |-> 0]

\* a constructor that starts from a bracket with x at its lower end
Brent_newFromLower(lower, upper, x) ==
    IF x.threw
    THEN [threw |-> TRUE, error |-> TargetError, this |-> x.this,
          calls |-> <<x.call>>]
    ELSE [threw |-> FALSE,
          this |-> [x.this EXCEPT !.state =
                       [a |-> lower, b |-> upper, v |-> x.point, w |-> x.point,
                        x |-> [x.point EXCEPT !.location = lower],
                        d |-> 0, e |-> 0]],
          calls |-> <<x.call>>]

\* the constructor once the first point x has been evaluated
Brent_newFrom(lower, upper, x) ==
    IF x.threw
    THEN [threw |-> TRUE, error |-> TargetError, this |-> x.this,
          calls |-> <<x.call>>]
    ELSE [threw |-> FALSE,
          this |-> [x.this EXCEPT !.state =
                       [a |-> lower, b |-> upper, v |-> x.point, w |-> x.point,
                        x |-> x.point, d |-> 0, e |-> 0]],
          calls |-> <<x.call>>]

Brent_new(tgt, lower, upper, control, known, c) ==
    IF brentControl(control).threw
    THEN [threw |-> TRUE, error |-> brentControl(control).error,
          this |-> Brent_fields(tgt, brentControl(control).control),
          calls |-> <<>>]
    ELSE Brent_newFrom(
             lower, upper,
             Brent_point(Brent_fields(tgt, brentControl(control).control), known,
                         lower + timesSquaredInverseGoldenRatio(upper - lower),
                         c))

\* an update that moves the bracket end on the far side of x when u is worse
updateStateNarrowsFarSide(u, state) ==
    LET x == state.x
        w == state.w
        v == state.v
    IN  IF u.value > x.value
        THEN LET s1 == IF u.location < x.location
                       THEN [state EXCEPT !.b = u.location]
                       ELSE [state EXCEPT !.a = u.location]
             IN  IF u.value <= w.value \/ w.location = x.location
                 THEN [s1 EXCEPT !.v = w, !.w = u]
                 ELSE [s1 EXCEPT !.v = u]
        ELSE [state EXCEPT !.v = w, !.w = x, !.x = u]

\* an update that takes every new point as the best one
updateStateAdoptsAny(u, state) ==
    LET s1 == IF u.location >= state.x.location
              THEN [state EXCEPT !.a = state.x.location]
              ELSE [state EXCEPT !.b = state.x.location]
    IN  [s1 EXCEPT !.v = state.w, !.w = state.x, !.x = u]

\* an update that moves v, w and x but never narrows the bracket
updateStateKeepsBracket(u, state) ==
    LET x == state.x
        w == state.w
        v == state.v
    IN  IF u.value > x.value
        THEN IF u.value <= w.value \/ w.location = x.location
             THEN [state EXCEPT !.v = w, !.w = u]
             ELSE IF \/ u.value <= v.value
                     \/ v.location = x.location
                     \/ v.location = w.location
             THEN [state EXCEPT !.v = u]
             ELSE state
        ELSE [state EXCEPT !.v = w, !.w = x, !.x = u]

updateState(u, state) ==
    LET x == state.x
        w == state.w
        v == state.v
    IN  IF u.value > x.value
        THEN LET s1 == IF u.location < x.location
                       THEN [state EXCEPT !.a = u.location]
                       ELSE state
                 s2 == IF u.location >= x.location
                       THEN [s1 EXCEPT !.b = u.location]
                       ELSE s1
             IN  IF u.value <= w.value \/ w.location = x.location
                 THEN [s2 EXCEPT !.v = w, !.w = u]
                 ELSE IF \/ u.value <= v.value
                         \/ v.location = x.location
                         \/ v.location = w.location
                 THEN [s2 EXCEPT !.v = u]
                 ELSE s2
        ELSE LET s1 == IF u.location >= x.location
                       THEN [state EXCEPT !.a = x.location]
                       ELSE state
                 s2 == IF u.location < x.location
                       THEN [s1 EXCEPT !.b = x.location]
                       ELSE s1
             IN  [s2 EXCEPT !.v = w, !.w = x, !.x = u]

\* p is held in units of 1/BrentUnit^2 and q in units of 1/BrentUnit (each
\* times the unit of the values), so that p / q is in units of 1/BrentUnit
fitParabola(state, tolerance) ==
    IF Abs(state.e) <= tolerance
    THEN <<0, 0>>
    ELSE LET x == state.x
             v == state.v
             w == state.w
             r == (x.location - w.location) * (x.value - v.value)
             q0 == (x.location - v.location) * (x.value - w.value)
             p0 == (x.location - v.location) * q0 - (x.location - w.location) * r
             q1 == 2 * (q0 - r)
         IN  IF q1 > 0 THEN <<-p0, q1>> ELSE <<p0, -q1>>

\* p / q for q > 0, to the nearest multiple of 1/BrentUnit; as in doubles, the
\* quotient is zero only when p is
quotient(p, q) ==
    IF p # 0 /\ RoundDiv(p, q) = 0 THEN Sign(p) ELSE RoundDiv(p, q)

\* the test for falling back on a golden section step; the comparison with
\* 0.5 * q * e is made on both sides doubled
useGoldenRatio(state, p, q) ==
    \/ 2 * Abs(p) >= Abs(q * state.e)
    \/ p <= q * (state.a - state.x.location)
    \/ p >= q * (state.b - state.x.location)

\* x < xm with xm = 0.5 * (a + b), compared on both sides doubled
xLeftOfXm(state) == 2 * state.x.location < state.a + state.b

\* a golden section step measured on three times the larger part
goldenSectionTooFar(state) ==
    LET e == IF xLeftOfXm(state)
             THEN 3 * (state.b - state.x.location)
             ELSE 3 * (state.a - state.x.location)
    IN  [state EXCEPT !.e = e, !.d = timesSquaredInverseGoldenRatio(e)]

\* the golden section step: e is the larger part of the bracket
goldenSection(state) ==
    LET e == IF xLeftOfXm(state)
             THEN state.b - state.x.location
             ELSE state.a - state.x.location
    IN  [state EXCEPT !.e = e, !.d = timesSquaredInverseGoldenRatio(e)]

\* the parabolic interpolation step: d = p / q, kept tol1 away from x when
\* x + d falls within tol2 of an end of the bracket
parabolicInterpolation(state, p, q, tol1) ==
    LET d0 == quotient(p, q)
        uNext == state.x.location + d0
    IN  [state EXCEPT
            !.e = state.d,
            !.d = IF uNext - state.a < 2 * tol1 \/ state.b - uNext < 2 * tol1
                  THEN IF xLeftOfXm(state) THEN tol1 ELSE -tol1
                  ELSE d0]

\* this._step() once the point u has been evaluated
Brent_afterPoint(move, moved, u) ==
    IF u.threw
    THEN [ret |-> "throw", move |-> move, this |-> u.this, calls |-> <<u.call>>]
    ELSE [ret |-> "false", move |-> move,
          this |-> [u.this EXCEPT !.state = updateState(u.point, moved),
                                  !.converged = FALSE],
          calls |-> <<u.call>>]

\* this._step() once d and e are chosen: evaluate u = x + d, with d at least
\* tol1 in size
Brent_moveBy(th, known, c, tol1, move, moved) ==
    Brent_afterPoint(
        move, moved,
        Brent_point([th EXCEPT !.state = moved], known,
                    moved.x.location +
                        (IF Abs(moved.d) >= tol1
                         THEN moved.d ELSE copysign(tol1, moved.d)),
                    c))

\* this._step() once the parabola <<p, q>> has been fitted
Brent_afterFit(th, known, c, tol1, pq) ==
    IF useGoldenRatio(th.state, pq[1], pq[2])
    THEN Brent_moveBy(th, known, c, tol1, "golden", goldenSection(th.state))
    ELSE Brent_moveBy(th, known, c, tol1, "parabolic",
                      parabolicInterpolation(th.state, pq[1], pq[2], tol1))

\* this._step() past the convergence test: choose the next point by golden
\* section or parabolic interpolation, evaluate it and update the state
Brent_move(th, known, c, tol1) ==
    Brent_afterFit(th, known, c, tol1, fitParabola(th.state, tol1))

\* a step() that re-opens the search of an engine already converged
Brent_stepReopens(th, known, c) ==
    LET state == th.state
        x == state.x.location
        tol1 == timesSqrtMachineEps(Abs(x)) + RoundDiv(th.control.tolerance, 3)
        tol2 == 2 * tol1
    IN  IF /\ ~ th.converged
           /\ Abs(2 * x - (state.a + state.b)) <= 2 * tol2 - (state.b - state.a)
        THEN [ret |-> "true", move |-> "none",
              this |-> [th EXCEPT !.converged = TRUE], calls |-> <<>>]
        ELSE Brent_move(th, known, c, tol1)

\* a step() that is content with x within tol2 of the middle of the bracket
Brent_stepNearMiddle(th, known, c) ==
    LET state == th.state
        x == state.x.location
        tol1 == timesSqrtMachineEps(Abs(x)) + RoundDiv(th.control.tolerance, 3)
        tol2 == 2 * tol1
    IN  IF Abs(2 * x - (state.a + state.b)) <= 2 * tol2
        THEN [ret |-> "true", move |-> "none",
              this |-> [th EXCEPT !.converged = TRUE], calls |-> <<>>]
        ELSE Brent_move(th, known, c, tol1)

\* Brent.step(): this._converged = this._step(), which returns true when
\* |x - xm| <= tol2 - 0.5 * (b - a) (compared on both sides doubled)
Brent_step(th, known, c) ==
    LET state == th.state
        x == state.x.location
        tol1 == timesSqrtMachineEps(Abs(x)) + RoundDiv(th.control.tolerance, 3)
        tol2 == 2 * tol1
    IN  IF Abs(2 * x - (state.a + state.b)) <= 2 * tol2 - (state.b - state.a)
        THEN [ret |-> "true", move |-> "none",
              this |-> [th EXCEPT !.converged = TRUE], calls |-> <<>>]
        ELSE Brent_move(th, known, c, tol1)

\* a result() that reports the value as it is minimised
Brent_resultInternal(th) ==
    LET best == th.state.x
    IN  [converged |-> th.converged, data |-> best.data,
         evaluations |-> th.evaluations, iterations |-> th.evaluations - 1,
         location |-> best.location, value |-> best.value]

Brent_result(th) ==
    LET best == th.state.x
    IN  [converged |-> th.converged, data |-> best.data,
         evaluations |-> th.evaluations, iterations |-> th.evaluations - 1,
         location |-> best.location,
         value |-> IF th.control.findMax THEN -best.value ELSE best.value]

\* -------------------------------------------------------------- state

\* step() calls a Brent engine may receive
MaxBrentSteps == 16

VARIABLES
    engine,     \* what the caller uses: "Simplex", "Brent" or "invert"
    args,       \* the constructor's arguments
    pc,         \* "new", "idle" (constructed), "running" (inside run()),
                \* "dead" (the constructor threw)
    this,       \* the engine object's fields
    loop,       \* run()'s loop variable i and its argument maxIterations
    memo,       \* the target's outcomes at the locations evaluated so far
    stepCalls,  \* step() calls made on the engine so far
    everTrue,   \* some step() call has returned true
    last,       \* the last call the caller made and how it ended
    count,      \* how many step() calls have returned true, returned false
                \* and thrown, and how many calls of the target the engine
                \* has made, the constructor's included
    records     \* the Result records a target keeps and returns again, by
                \* location, as they are now

vars ==
    <<engine, args, pc, this, loop, memo, stepCalls, everTrue, last, count,
      records>>

SimplexControls ==
    {[deltaNonZero |-> Unit \div 2, deltaZero |-> Unit, tolerance |-> t]
        : t \in {-Unit, 0, Unit, 2 * Unit}}
    \cup
    {[deltaNonZero |-> Unit \div 2, deltaZero |-> Unit, tolerance |-> t,
      errorOnFailure |-> e] : t \in {Unit, 2 * Unit}, e \in BOOLEAN}

SimplexArgs ==
    [target : SimplexTargets,
     location : {<<2 * Unit>>, <<0, 2 * Unit>>},
     control : SimplexControls]

BrentControls ==
    {[tolerance |-> t] :
        t \in {-BrentUnit, 0, (3 * BrentUnit) \div 100, (3 * BrentUnit) \div 10}}
    \cup {[tolerance |-> (3 * BrentUnit) \div 10, findMax |-> f] : f \in BOOLEAN}

BrentArgs ==
    [target : BrentTargets,
     lower : {-2 * BrentUnit},
     upper : {-2 * BrentUnit, 2 * BrentUnit},
     control : BrentControls]

\* the values of maxIterations the caller passes to run()
RunArgs == {0, 1, 2, Infinity}

NoLoop == [i |-> 0, maxIterations |-> 0]

\* what the caller has seen of its last call: op and arg, the call made; entry,
\* whether the engine was converged when it was made; ret, how it ended
\* ("pending" inside run()); steps, evals and failed, the step() calls and the
\* target calls it has made and whether one of those threw; stepRet, stepEvals
\* and move, the return, the target calls and the move of its last step();
\* result, the record run() returned; error, what the constructor threw
NoCall ==
    [op |-> "none", arg |-> 0, entry |-> FALSE, ret |-> "none", steps |-> 0,
     evals |-> 0, failed |-> FALSE, stepRet |-> "none", stepEvals |-> 0,
     move |-> "none", result |-> Null, error |-> Null]

NoCount == [true |-> 0, false |-> 0, throw |-> 0, target |-> 0]

\* the counts once a step() has ended with ret after making calls of the target
Counted(ret, calls) ==
    [count EXCEPT ![ret] = @ + 1, !.target = @ + Len(calls)]

Failed(calls) == \E k \in DOMAIN calls : calls[k].threw

\* a loop that runs once more than asked
run_continuesInclusive(i, maxIterations) == i <= maxIterations

\* run()'s loop condition
run_continues(i, maxIterations) == i < maxIterations

Init ==
    /\ \/ engine = "Simplex" /\ args \in SimplexArgs
       \/ engine = "Brent" /\ args \in BrentArgs
    /\ pc = "new"
    /\ this = Null
    /\ loop = NoLoop
    /\ memo = {}
    /\ stepCalls = 0
    /\ everTrue = FALSE
    /\ last = NoCall
    /\ count = NoCount
    /\ records = Null

\* the departures a call may draw: none where the call evaluates nothing, none
\* at a location the target is already known at, and at most MaxOverrides in
\* the whole life of the target
Drawn(outs, calls) ==
    /\ \A k \in DOMAIN outs :
          outs[k].special =>
              /\ k <= Len(calls)
              /\ Known(memo \cup {calls[j] : j \in 1..(k - 1)}, calls[k].location) = {}
    /\ Cardinality({m \in memo \cup Range(calls) : m.special}) <= MaxOverrides

\* the departures a call of k evaluations may draw, one for each evaluation:
\* no more of them than the target has left
Outs(k) ==
    LET left == MaxOverrides - Cardinality({m \in memo : m.special})
    IN  {outs \in [1..k -> Choices] :
            Cardinality({j \in 1..k : outs[j].special}) <= left}

result(th) == IF engine = "Simplex" THEN Simplex_result(th) ELSE Brent_result(th)

MaxSteps == IF engine = "Simplex" THEN MaxSimplexSteps ELSE MaxBrentSteps

\* the departures one step() may draw, one for each evaluation it can make
StepOuts ==
    IF engine = "Simplex"
    THEN Outs(this.n + 2)
    ELSE [1..1 -> {Default} \cup Overrides1]

step(th, known, outs) ==
    IF engine = "Simplex"
    THEN Simplex_step(th, known, outs)
    ELSE Brent_step(th, known, outs[1])

\* the departures of a step() on a target that has none left to make
NoOuts(th) ==
    [k \in 1..(IF engine = "Simplex" THEN th.n + 2 ELSE 1) |-> Default]

\* run(maxIterations) as a whole, for a target that does what it is known to
\* do and follows its base function elsewhere: the loop from iteration i on,
\* and the loop once the step() of iteration i has ended as r says
RECURSIVE run_loop(_, _, _)
run_stepped(r, i, maxIterations) ==
    IF r.ret = "false" THEN run_loop(r.this, i + 1, maxIterations) ELSE r.this

run_loop(th, i, maxIterations) ==
    IF run_continues(i, maxIterations)
    THEN run_stepped(step(th, memo, NoOuts(th)), i, maxIterations)
    ELSE th

\* the engine after run(maxIterations); run() returns result() of it
run(th, maxIterations) ==
    IF th.converged THEN th ELSE run_loop(th, 0, maxIterations)

\* the constructor has returned the object r.this, or thrown
Constructed(outs, r) ==
    /\ Drawn(outs, r.calls)
    /\ pc' = IF r.threw THEN "dead" ELSE "idle"
    /\ this' = r.this
    /\ memo' = memo \cup Range(r.calls)
    /\ last' = [NoCall EXCEPT
                   !.op = "new",
                   !.ret = IF r.threw THEN "throw" ELSE "object",
                   !.error = IF r.threw THEN r.error ELSE Null,
                   !.evals = Len(r.calls),
                   !.failed = Failed(r.calls)]
    /\ count' = [count EXCEPT !.target = Len(r.calls)]

SimplexConstruct ==
    /\ pc = "new"
    /\ engine = "Simplex"
    /\ \E outs \in Outs(Len(args.location) + 1) :
          Constructed(outs, Simplex_new(args.target, args.location,
                                        args.control, memo, outs))
    /\ UNCHANGED <<engine, args, loop, stepCalls, everTrue, records>>

BrentConstruct ==
    /\ pc = "new"
    /\ engine = "Brent"
    /\ \E outs \in [1..1 -> {Default} \cup Overrides1] :
          Constructed(outs, Brent_new(args.target, args.lower, args.upper,
                                      args.control, memo, outs[1]))
    /\ UNCHANGED <<engine, args, loop, stepCalls, everTrue, records>>

\* step() has ended as r says
Stepped(outs, r) ==
    /\ Drawn(outs, r.calls)
    /\ this' = r.this
    /\ memo' = memo \cup Range(r.calls)
    /\ everTrue' = (everTrue \/ r.ret = "true")
    /\ last' = [NoCall EXCEPT
                   !.op = "step", !.entry = this.converged,
                   !.ret = r.ret, !.steps = 1,
                   !.evals = Len(r.calls), !.failed = Failed(r.calls),
                   !.stepRet = r.ret, !.stepEvals = Len(r.calls),
                   !.move = r.move]
    /\ count' = Counted(r.ret, r.calls)

\* the caller calls step()
Step ==
    /\ pc = "idle"
    /\ stepCalls < MaxSteps
    /\ \E outs \in StepOuts : Stepped(outs, step(this, memo, outs))
    /\ stepCalls' = stepCalls + 1
    /\ UNCHANGED <<engine, args, pc, loop, records>>

\* the caller calls run(maxIterations): the test of this._converged and of
\* the loop condition before the first iteration
RunBegin ==
    /\ pc = "idle"
    /\ \E maxIterations \in RunArgs :
          LET entered == ~ this.converged /\ run_continues(0, maxIterations)
          IN  /\ pc' = IF entered THEN "running" ELSE "idle"
              /\ loop' = IF entered
                         THEN [i |-> 0, maxIterations |-> maxIterations]
                         ELSE NoLoop
              /\ last' = [NoCall EXCEPT
                             !.op = "run", !.arg = maxIterations,
                             !.ret = IF entered THEN "pending" ELSE "result",
                             !.entry = this.converged,
                             !.result = IF entered THEN Null ELSE result(this)]
    /\ UNCHANGED <<engine, args, this, memo, stepCalls, everTrue, count, records>>

\* the iteration of run()'s loop once its step() has ended as r says; ends
\* tells whether the loop ends with it (break, or ++i and the loop condition)
Iterated(outs, r, ends) ==
    /\ Drawn(outs, r.calls)
    /\ this' = r.this
    /\ memo' = memo \cup Range(r.calls)
    /\ everTrue' = (everTrue \/ r.ret = "true")
    /\ pc' = IF r.ret = "throw" \/ ends THEN "idle" ELSE "running"
    /\ loop' = IF r.ret = "throw" \/ ends
               THEN NoLoop
               ELSE [loop EXCEPT !.i = @ + 1]
    /\ last' = [last EXCEPT
                   !.ret = IF r.ret = "throw" THEN "throw"
                           ELSE IF ends THEN "result" ELSE "pending",
                   !.steps = @ + 1,
                   !.evals = @ + Len(r.calls),
                   !.failed = @ \/ Failed(r.calls),
                   !.stepRet = r.ret, !.stepEvals = Len(r.calls),
                   !.move = r.move,
                   !.result = IF r.ret # "throw" /\ ends
                              THEN result(r.this) ELSE Null]
    /\ count' = Counted(r.ret, r.calls)

\* step() within run(): the loop ends when it returns true
Ran(outs, r) ==
    Iterated(outs, r,
             r.ret = "true" \/ ~ run_continues(loop.i + 1, loop.maxIterations))

\* one iteration of run()'s loop: step(), then break, ++i and the loop
\* condition, and the return of result() when the loop ends
RunIter ==
    /\ pc = "running"
    /\ stepCalls < MaxSteps
    /\ \E outs \in StepOuts : Ran(outs, step(this, memo, outs))
    /\ stepCalls' = stepCalls + 1
    /\ UNCHANGED <<engine, args, records>>

Next ==
    \/ SimplexConstruct
    \/ BrentConstruct
    \/ Step
    \/ RunBegin
    \/ RunIter

Spec == Init /\ [][Next]_vars

\* the callers of Brent
BrentInit == Init /\ engine = "Brent"

BrentNext ==
    \/ BrentConstruct
    \/ Step
    \/ RunBegin
    \/ RunIter

\* the steps RunIter takes on a Brent engine, and the states it can take one in
RunProgress ==
    /\ pc = "running"
    /\ stepCalls < MaxBrentSteps
    /\ stepCalls' = stepCalls + 1

\* run() is a loop of the program: once entered it goes on until it returns
FairSpec == BrentInit /\ [][BrentNext]_vars /\ WF_stepCalls(RunProgress)

\* the callers of invert: targets that return a number, a new Result record
\* at each call, or the Result record they keep for the location
InvertTargets ==
    {tgt \in [base : {"parabola", "slope"}, rich : BOOLEAN, kept : BOOLEAN] :
        tgt.kept => tgt.rich}

InvertLocations == {-BrentUnit, 0, BrentUnit, 2 * BrentUnit}

InvertInit ==
    /\ engine = "invert"
    /\ args \in [target : InvertTargets]
    /\ pc = "idle"
    /\ this = Null
    /\ loop = NoLoop
    /\ memo = {}
    /\ stepCalls = 0
    /\ everTrue = FALSE
    /\ last = NoCall
    /\ count = NoCount
    /\ records = Null

\* the contents of what target(x) returns: those of the record kept for x,
\* if there is one, else the base function's value and the payload
Returned1(tgt, recs, x) ==
    IF tgt.kept /\ x \in DOMAIN recs
    THEN recs[x]
    ELSE [value |-> BaseValue1(tgt.base, x), data |-> DataAt(x)]

\* target(x) for a target whose Result record holds returned
target1(tgt, returned) ==
    IF tgt.rich
    THEN [threw |-> FALSE, isNumber |-> FALSE, value |-> returned.value,
          data |-> returned.data]
    ELSE [threw |-> FALSE, isNumber |-> TRUE, value |-> returned.value,
          data |-> Null]

\* invert(target)(x) has returned res: for a Result, checkResult hands back
\* the target's own object, so res is that object and the assignment to
\* res.value is made in the record the target keeps
Inverted(x, res) ==
    /\ records' =
          IF args.target.kept
          THEN [l \in DOMAIN records \cup {x} |->
                   IF l = x
                   THEN [value |-> res.value, data |-> res.data]
                   ELSE records[l]]
          ELSE records
    /\ last' = [NoCall EXCEPT
                   !.op = "invert", !.arg = x, !.ret = "result",
                   !.entry = x \in DOMAIN records,
                   !.result = [value |-> res.value, data |-> res.data]]

\* the caller calls invert(target)(x)
InvertCall ==
    /\ engine = "invert"
    /\ \E x \in InvertLocations :
          Inverted(x, invert(target1(args.target,
                                     Returned1(args.target, records, x))))
    /\ UNCHANGED <<engine, args, pc, this, loop, memo, stepCalls, everTrue, count>>

InvertSpec == InvertInit /\ [][InvertCall]_vars

\* ------------------------------------------------------------- claims

\* the caller's error policy: true unless control.errorOnFailure is true
Tolerant == ~ ("errorOnFailure" \in DOMAIN args.control /\ args.control.errorOnFailure)

\* the search state of the engine
SearchState == IF engine = "Simplex" THEN this.simplex ELSE this.state

\* the target has been called at location and returned
Returned(location) == \E m \in memo : m.location = location /\ ~ m.threw

\* the target has been called at location and threw
Threw(location) == \E m \in memo : m.location = location /\ m.threw

\* C1: for both engines, once a call of step() has returned true, every later
\* call of step() returns true, calls the target zero times and leaves the
\* search state (Simplex: the simplex points and their order; Brent: a, b, x,
\* w, v, d, e) as it was
C1_ConvergedStepIsNoOp ==
    [][(everTrue /\ stepCalls' = stepCalls + 1) =>
          /\ last'.stepRet = "true"
          /\ last'.stepEvals = 0
          /\ memo' = memo
          /\ SearchState' = SearchState]_vars

C1_Witness ==
    /\ engine = "Brent"
    /\ last.op = "step"
    /\ last.entry
    /\ last.stepRet = "true"
    /\ last.stepEvals = 0

\* C2 as stated: for both engines, one more step() after step() has returned
\* true returns true and leaves every field of result() as it was
C2_ResultUnchanged ==
    [][(everTrue /\ stepCalls' = stepCalls + 1) =>
          /\ last'.stepRet = "true"
          /\ result(this)' = result(this)]_vars

\* C2 amended: for both engines, one more step() after step() has returned
\* true returns true and leaves location, value, data, converged and
\* evaluations of result() as they were; iterations is as it was for Brent and
\* one more for Simplex
C2_ResultUnchangedButIterations ==
    [][(everTrue /\ stepCalls' = stepCalls + 1) =>
          /\ last'.stepRet = "true"
          /\ \A f \in {"location", "value", "data", "converged", "evaluations"} :
                result(this)'[f] = result(this)[f]
          /\ result(this)'.iterations =
                result(this).iterations + IF engine = "Simplex" THEN 1 ELSE 0]_vars

C2_Witness ==
    /\ engine = "Simplex"
    /\ last.op = "step"
    /\ last.entry
    /\ last.stepRet = "true"
    /\ this.iterations = stepCalls

C4_FirstEvaluationUnprotected ==
    (engine = "Simplex" /\ Threw(args.location)) =>
        /\ pc = "dead"
        /\ last.op = "new"
        /\ last.ret = "throw"
        /\ last.evals = 1

C4_Witness ==
    /\ engine = "Simplex"
    /\ Tolerant
    /\ Threw(args.location)
    /\ pc = "dead"
    /\ last.failed

\* C5 as stated: in a Simplex built without an errorOnFailure field, a throw
\* of the target in step() or run() propagates to the caller
C5_DefaultPropagates ==
    (/\ engine = "Simplex"
     /\ "errorOnFailure" \notin DOMAIN args.control
     /\ last.op \in {"step", "run"}
     /\ last.failed) => last.ret = "throw"

\* C5 amended: a throw of the target in step() or run() of a Simplex
\* propagates to the caller exactly when the caller passed errorOnFailure:
\* true; without the field, or with false, it is converted and the call goes on
C5_PropagatesOnlyOnRequest ==
    (engine = "Simplex" /\ last.op \in {"step", "run"} /\ last.failed) =>
        (last.ret = "throw" <=>
            ("errorOnFailure" \in DOMAIN args.control /\ args.control.errorOnFailure))

C5_Witness ==
    /\ engine = "Simplex"
    /\ "errorOnFailure" \notin DOMAIN args.control
    /\ last.op = "step"
    /\ last.failed
    /\ last.ret = "false"

\* C6: in a Simplex with errorOnFailure true, a step() out of which a throw of
\* the target propagates leaves the simplex as it was: the same points in the
\* same order
C6_FailedStepLeavesSimplex ==
    [][(/\ engine = "Simplex"
        /\ stepCalls' = stepCalls + 1
        /\ last'.stepRet = "throw") => this'.simplex = this.simplex]_vars

\* C7: for both engines and a target that does not throw, run(k) calls step()
\* at most k times, none after a step() that returned true and none at all on
\* an engine already converged, and returns result(): with converged false,
\* and no exception, when the k steps are used up before convergence
C7_RunIsBounded ==
    (last.op = "run" /\ \A m \in memo : ~ m.threw) =>
        /\ last.ret # "throw"
        /\ last.steps <= last.arg
        /\ last.entry => (last.steps = 0 /\ last.ret = "result")
        /\ (last.steps > 0 /\ last.stepRet = "true") => last.ret = "result"
        /\ (last.ret = "pending") <=> (pc = "running")
        /\ last.ret = "result" =>
              /\ last.result = result(this)
              /\ last.result.converged = (last.entry \/ last.stepRet = "true")
              /\ (~ last.result.converged) => last.steps = last.arg

C7_Witness ==
    /\ last.op = "run"
    /\ \A m \in memo : ~ m.threw
    /\ last.arg = 2
    /\ last.steps = 2
    /\ last.ret = "result"
    /\ ~ last.result.converged

\* C8: a Brent engine built with lower < upper and tolerance > 0 on a target
\* that returns a finite number wherever it is called: run(Infinity) ends,
\* after finitely many step() calls, with a step() that returned true
C8_BrentRunTerminates ==
    (/\ engine = "Brent"
     /\ pc = "running"
     /\ loop.maxIterations = Infinity
     /\ \A m \in memo : ~ m.threw)
        ~> (/\ pc = "idle"
            /\ last.op = "run"
            /\ \/ last.ret = "result" /\ last.stepRet = "true" /\ this.converged
               \/ last.ret = "throw")

C8_Witness ==
    /\ engine = "Brent"
    /\ args.lower < args.upper
    /\ \A m \in memo : ~ m.threw
    /\ last.op = "run"
    /\ last.arg = Infinity
    /\ last.ret = "result"
    /\ last.steps > 2
    /\ last.stepRet = "true"

C10_DataIsOfBestPoint ==
    pc \in {"idle", "running"} =>
        \E m \in memo :
            /\ m.location = result(this).location
            /\ IF m.threw
               THEN result(this).value = Infinity /\ result(this).data = Null
               ELSE /\ result(this).value = m.value
                    /\ result(this).data =
                          IF args.target.rich
                          THEN DataAt(result(this).location)
                          ELSE Null

C10_Witness ==
    /\ engine = "Simplex"
    /\ args.target.rich
    /\ pc = "idle"
    /\ last.op = "step"
    /\ last.ret = "false"
    /\ result(this).location # args.location
    /\ result(this).data = DataAt(result(this).location)

\* the engine exists: its constructor has returned
Built == pc \in {"idle", "running"}

C12_IterationsCountSteps ==
    Built => result(this).iterations = stepCalls

\* C13: for both engines, result().evaluations is the number of calls of the
\* target the engine has made since and including construction, whether the
\* call returned, was converted to +Infinity, or threw out of step()
C13_EvaluationsCountCalls ==
    Built => result(this).evaluations = count.target

\* the location of point k of the initial simplex: the initial location, with
\* coordinate k (for k > 0) times 1 + deltaNonZero if it is not zero and set
\* to deltaZero if it is
InitialLocation(k) ==
    [i \in DOMAIN args.location |->
        IF i # k
        THEN args.location[i]
        ELSE IF args.location[i] # 0
        THEN (args.location[i] * (Unit + args.control.deltaNonZero)) \div Unit
        ELSE args.control.deltaZero]

\* the simplex is in ascending order of value
Sorted(simplex) ==
    \A i \in 1..(Len(simplex) - 1) : simplex[i].value <= simplex[i + 1].value

\* C14: when a Simplex has been constructed on an n-dimensional location and
\* the target has not failed, the target has been called n + 1 times: at the
\* initial location and, for each coordinate, at the initial location with
\* that coordinate perturbed; those n + 1 points, sorted by value, are the
\* simplex, iterations is 0, converged is false and evaluations is n + 1
C14_InitialSimplex ==
    (engine = "Simplex" /\ last.op = "new" /\ last.ret = "object"
        /\ ~ last.failed) =>
        /\ last.evals = Len(args.location) + 1
        /\ count.target = Len(args.location) + 1
        /\ {m.location : m \in memo} = {InitialLocation(k) : k \in 0..Len(args.location)}
        /\ Len(this.simplex) = Len(args.location) + 1
        /\ \A k \in 0..Len(args.location) :
              \E i \in DOMAIN this.simplex :
                  /\ this.simplex[i].id = k
                  /\ this.simplex[i].location = InitialLocation(k)
                  /\ \E m \in memo : /\ m.location = InitialLocation(k)
                                     /\ m.value = this.simplex[i].value
        /\ Sorted(this.simplex)
        /\ result(this).iterations = 0
        /\ result(this).converged = FALSE
        /\ result(this).evaluations = Len(args.location) + 1

C14_Witness ==
    /\ engine = "Simplex"
    /\ last.op = "new"
    /\ last.ret = "object"
    /\ ~ last.failed
    /\ Len(args.location) = 2
    /\ this.simplex[1].id = 2
    /\ this.simplex[1].location = <<0, 3 * Unit>>
    /\ this.simplex[3].location = <<Unit, 2 * Unit>>
    /\ this.simplex[1].value < this.simplex[2].value

\* C15: constructing a Simplex or a Brent with tolerance <= 0 throws
\* "Invalid control parameter: 'tolerance' must be strictly positive" before
\* the target has been called once, and there is no engine
C15_ToleranceIsValidatedFirst ==
    (pc # "new" /\ args.control.tolerance <= 0) =>
        /\ pc = "dead"
        /\ last.op = "new"
        /\ last.ret = "throw"
        /\ last.error = "Invalid control parameter: 'tolerance' must be strictly positive"
        /\ last.evals = 0
        /\ count.target = 0
        /\ memo = {}

C15_Witness ==
    /\ engine = "Simplex"
    /\ args.control.tolerance < 0
    /\ pc = "dead"
    /\ last.ret = "throw"
    /\ memo = {}

\* (worst - best) / |worst| < tolerance, in IEEE arithmetic
RelativelyClose(worst, best, tolerance) ==
    IF worst = Infinity
    THEN FALSE
    ELSE IF best = Infinity
    THEN TRUE
    ELSE IF worst # 0
    THEN (worst - best) * Unit < tolerance * Abs(worst)
    ELSE best > 0

\* C16: Simplex: when step() has returned true, the values of the best and
\* the worst point of the simplex differ by less than tolerance, absolutely
\* (worst - best < tolerance) or relatively ((worst - best) / |worst| <
\* tolerance), whatever the sign of the values
C16_TrueStepMeansValuesClose ==
    (engine = "Simplex" /\ last.stepRet = "true") =>
        \/ AbsoluteSame(this.simplex[this.n + 1].value, this.simplex[1].value,
                        this.control.tolerance)
        \/ RelativelyClose(this.simplex[this.n + 1].value, this.simplex[1].value,
                           this.control.tolerance)

\* the size of the simplex on axis i: the largest difference in coordinate i
\* between any two of its points
AxisSize(simplex, i) ==
    LET coords == {simplex[k].location[i] : k \in DOMAIN simplex}
    IN  CHOOSE d \in {x - y : x \in coords, y \in coords} :
            \A x \in coords, y \in coords : x - y <= d

\* C17: Simplex: when step() has returned true, the simplex has collapsed on
\* every axis: the largest difference in a coordinate between any two of the
\* n + 1 points, not only the best and the worst, is below tolerance
C17_TrueStepMeansCollapsed ==
    (engine = "Simplex" /\ last.stepRet = "true") =>
        \A i \in 1..this.n : AxisSize(this.simplex, i) < this.control.tolerance

BrentEvaluatesOncePerMove ==
    /\ last.op = "new" =>
          /\ last.evals = 1
          /\ {m.location : m \in memo} =
                {args.lower + RoundDiv(squaredInverseGoldenRatioNum
                                           * (args.upper - args.lower),
                                       squaredInverseGoldenRatioDen)}
          /\ this.state.x.location \in {m.location : m \in memo}
          /\ this.state.w = this.state.x
          /\ this.state.v = this.state.x
          /\ this.state.d = 0
          /\ this.state.e = 0
    /\ last.stepRet = "false" => last.stepEvals = 1
    /\ last.stepRet = "true" => last.stepEvals = 0

\* C19 as stated: Brent: the constructor and each step() as above, so that
\* evaluations = 1 + the number of step() calls that returned false
C19_EvaluationsCountFalseSteps ==
    (engine = "Brent" /\ Built) =>
        /\ BrentEvaluatesOncePerMove
        /\ result(this).evaluations = 1 + count["false"]

\* C19 amended: Brent: the constructor and each step() as above, and a
\* step() out of which the target throws has called it once and is counted,
\* so that evaluations = 1 + the number of step() calls that returned false
\* or threw
C19_EvaluationsCountMoves ==
    (engine = "Brent" /\ Built) =>
        /\ BrentEvaluatesOncePerMove
        /\ last.stepRet = "throw" => last.stepEvals = 1
        /\ result(this).evaluations = 1 + count["false"] + count["throw"]
        /\ result(this).evaluations = count.target

C19_Witness ==
    /\ engine = "Brent"
    /\ pc = "idle"
    /\ count["false"] > 1
    /\ count["throw"] = 1
    /\ count["true"] = 1
    /\ result(this).evaluations = 2 + count["false"]

\* C20: Simplex: after construction and after every step() that returns,
\* whatever move it made and also with +Infinity values in the simplex, the
\* n + 1 points are in ascending order of value
C20_SimplexIsSorted ==
    [][(/\ engine = "Simplex"
        /\ \/ pc = "new" /\ pc' = "idle"
           \/ stepCalls' = stepCalls + 1 /\ last'.stepRet # "throw") =>
          Sorted(this'.simplex)]_vars

C20_Witness ==
    /\ engine = "Simplex"
    /\ last.op = "step"
    /\ last.stepRet = "false"
    /\ last.move = "shrink"
    /\ this.n = 2
    /\ this.simplex[3].value = Infinity
    /\ this.simplex[1].value < this.simplex[2].value

\* C21: Brent built with lower <= upper: in every state a <= x.location <= b
C21_BestIsInBracket ==
    (engine = "Brent" /\ Built /\ args.lower <= args.upper) =>
        /\ this.state.a <= this.state.x.location
        /\ this.state.x.location <= this.state.b

C21_Witness ==
    /\ engine = "Brent"
    /\ last.op = "step"
    /\ last.move = "parabolic"
    /\ args.lower < this.state.a
    /\ this.state.a < this.state.x.location
    /\ this.state.x.location < this.state.b
    /\ this.state.b < args.upper

\* the value the engine minimises at an evaluated location: the target's
\* value, negated under findMax
InternalValue(th, m) == IF th.control.findMax THEN -m.value ELSE m.value

\* the values of the points the target has returned so far
Visited(th) == {InternalValue(th, m) : m \in {k \in memo : ~ k.threw}}

\* C22: Brent: x has the lowest value of all points evaluated so far, so
\* x.value <= w.value and x.value <= v.value, and x.value never increases
\* from one step() to the next
C22_BestIsLowest ==
    /\ [](engine = "Brent" /\ Built =>
            /\ this.state.x.value \in Visited(this)
            /\ \A value \in Visited(this) : this.state.x.value <= value
            /\ this.state.x.value <= this.state.w.value
            /\ this.state.x.value <= this.state.v.value)
    /\ [][engine = "Brent" /\ Built /\ Built' =>
            this'.state.x.value <= this.state.x.value]_vars

C22_Witness ==
    /\ engine = "Brent"
    /\ last.op = "step"
    /\ last.stepRet = "false"
    /\ Cardinality(Visited(this)) >= 4
    /\ this.state.x.value < this.state.w.value
    /\ this.state.w.value < this.state.v.value
    /\ \E value \in Visited(this) : this.state.v.value < value

\* tol1 of a step() that starts in th
Tol1(th) ==
    timesSqrtMachineEps(Abs(th.state.x.location))
        + RoundDiv(th.control.tolerance, 3)

\* the location a step() that starts in th and evaluates the target calls it at
EvaluatedAt(th) == Brent_step(th, memo, Default).calls[1].location

\* C23: Brent: every point u that step() evaluates is at least tol1 away from
\* x.location, with x and tol1 taken at the start of the step
C23_StepIsAtLeastTol1 ==
    [][(engine = "Brent" /\ stepCalls' = stepCalls + 1 /\ last'.stepEvals = 1) =>
          Abs(EvaluatedAt(this) - this.state.x.location) >= Tol1(this)]_vars

\* the value a Simplex holds for location once the target has been called
\* there: the target's value, or +Infinity for a failure it tolerates
ValueAt(known, location) ==
    LET m == CHOOSE k \in known : k.location = location
    IN  IF m.threw THEN Infinity ELSE m.value

\* a point as location and value
Place(location, value) == [location |-> location, value |-> value]

\* how many times each location and value occurs in a list of points
Places(points) ==
    [p \in {Place(points[i].location, points[i].value) : i \in DOMAIN points} |->
        Cardinality({i \in DOMAIN points :
                        Place(points[i].location, points[i].value) = p})]

\* the simplex with its worst slot replaced by the point at location
WorstReplaced(simplex, known, location) ==
    [i \in DOMAIN simplex |->
        IF i = Len(simplex)
        THEN Place(location, ValueAt(known, location))
        ELSE Place(simplex[i].location, simplex[i].value)]

\* the simplex with every point but the best moved halfway to the best
Halved(simplex, known) ==
    [i \in DOMAIN simplex |->
        IF i = 1
        THEN Place(simplex[1].location, simplex[1].value)
        ELSE LET halfway == [j \in DOMAIN simplex[1].location |->
                                (simplex[1].location[j] + simplex[i].location[j]) \div 2]
             IN  Place(halfway, ValueAt(known, halfway))]

\* the points C24 says a step() leaves, from the simplex it starts with, the
\* centroid c of all points but the worst, and the values in known
Selected(simplex, c, known) ==
    LET n == Len(simplex) - 1
        w == simplex[n + 1].location
        r == [j \in DOMAIN c |-> 2 * c[j] - w[j]]
        e == [j \in DOMAIN c |-> 3 * c[j] - 2 * w[j]]
        inside == [j \in DOMAIN c |-> (c[j] + w[j]) \div 2]
        outside == [j \in DOMAIN c |-> (3 * c[j] - w[j]) \div 2]
    IN  IF ValueAt(known, r) < simplex[1].value
        THEN IF ValueAt(known, e) < ValueAt(known, r)
             THEN WorstReplaced(simplex, known, e)
             ELSE WorstReplaced(simplex, known, r)
        ELSE IF ValueAt(known, r) < simplex[n].value
        THEN WorstReplaced(simplex, known, r)
        ELSE LET contracted == IF ValueAt(known, r) > simplex[n + 1].value
                               THEN inside ELSE outside
             IN  IF ValueAt(known, contracted) < simplex[n + 1].value
                 THEN WorstReplaced(simplex, known, contracted)
                 ELSE Halved(simplex, known)

\* the reflected point is accepted as it is
ReflectionAccepted(simplex, c, known) ==
    LET n == Len(simplex) - 1
        r == [j \in DOMAIN c |-> 2 * c[j] - simplex[n + 1].location[j]]
    IN  /\ ValueAt(known, r) >= simplex[1].value
        /\ ValueAt(known, r) < simplex[n].value

\* C24: Simplex: a step() that is not converged replaces the worst point by
\* the expanded point e when r.value < best.value and e.value < r.value, by
\* the reflected point r when r.value < best.value otherwise, by r with no
\* further evaluation when best.value <= r.value < secondWorst.value, and
\* else by the contracted point c (inside when r.value > worst.value,
\* outside otherwise) iff c.value < worst.value; if c is rejected, every
\* point but the best is replaced by the point halfway between it and the best
C24_MoveSelection ==
    [][(/\ engine = "Simplex"
        /\ stepCalls' = stepCalls + 1
        /\ last'.stepRet = "false") =>
          /\ Places(this'.simplex) =
                Places(Selected(this.simplex, Simplex_centroid(this), memo'))
          /\ ReflectionAccepted(this.simplex, Simplex_centroid(this), memo') =>
                count'.target - count.target = 1]_vars

C24_Witness ==
    /\ engine = "Simplex"
    /\ last.op = "step"
    /\ last.stepRet = "false"
    /\ last.move = "shrink"
    /\ ~ last.failed
    /\ this.n = 2

\* the values of the points the target has returned so far at other
\* locations than that of x
VisitedElsewhere(th) ==
    {InternalValue(th, m) :
        m \in {k \in memo : ~ k.threw /\ k.location # th.state.x.location}}

\* C25: Brent: after a step() that evaluated the target, no evaluated point
\* other than the one held in x has a value lower than w.value
C25_SecondBestIsW ==
    (/\ engine = "Brent"
     /\ Built
     /\ last.stepRet = "false") =>
        \A value \in VisitedElsewhere(this) : this.state.w.value <= value

\* C26: Simplex, when the target returns or fails with the failure tolerated:
\* result().value never increases over a step(), and the best point after the
\* step is the best point before it or a point evaluated in the step
C26_BestValueNeverIncreases ==
    [][(/\ engine = "Simplex"
        /\ stepCalls' = stepCalls + 1
        /\ last'.stepRet # "throw") =>
          /\ result(this').value <= result(this).value
          /\ \/ this'.simplex[1].id = this.simplex[1].id
             \/ this'.simplex[1].id >= this.id]_vars

C26_Witness ==
    /\ engine = "Simplex"
    /\ last.stepRet = "false"
    /\ last.move = "shrink"
    /\ this.simplex[1].id >= this.id - this.n

\* C27: Brent built with lower < upper: every location the target is called
\* at lies in the bracket [a, b] of the time of the call, the bracket only
\* narrows, and so the target is never called outside [lower, upper]
C27_EvaluationsInBracket ==
    /\ [](engine = "Brent" /\ args.lower < args.upper =>
            \A m \in memo : args.lower <= m.location /\ m.location <= args.upper)
    /\ [][(/\ engine = "Brent"
           /\ args.lower < args.upper
           /\ stepCalls' = stepCalls + 1) =>
             /\ this.state.a <= this'.state.a
             /\ this'.state.b <= this.state.b
             /\ last'.stepEvals = 1 =>
                   /\ this.state.a <= EvaluatedAt(this)
                   /\ EvaluatedAt(this) <= this.state.b]_vars

C27_Witness ==
    /\ engine = "Brent"
    /\ args.lower < args.upper
    /\ last.op = "step"
    /\ last.stepEvals = 1
    /\ args.lower < this.state.a
    /\ this.state.b < args.upper
    /\ this.state.b - this.state.a <= 2 * Tol1(this)
    /\ ~ this.converged

\* C28: Brent: when step() returns true, x.location - a <= tol2 and
\* b - x.location <= tol2, with tol2 = 2 * tol1, and hence b - a <= 2 * tol2
C28_ConvergedBracketIsTight ==
    (engine = "Brent" /\ Built /\ last.stepRet = "true") =>
        /\ this.state.x.location - this.state.a <= 2 * Tol1(this)
        /\ this.state.b - this.state.x.location <= 2 * Tol1(this)
        /\ this.state.b - this.state.a <= 4 * Tol1(this)

C28_Witness ==
    /\ engine = "Brent"
    /\ last.stepRet = "true"
    /\ this.evaluations >= 6
    /\ this.state.a < this.state.x.location
    /\ this.state.x.location < this.state.b
    /\ this.state.b - this.state.a > 2 * Tol1(this)

\* j + k for iteration counts, of which Infinity is one
Plus(j, k) == IF j = Infinity \/ k = Infinity THEN Infinity ELSE j + k

\* the pairs of iteration counts run() is compared on: for a Simplex, finite
\* ones that keep the number of steps within MaxSimplexSteps
RunPairs(th) ==
    IF engine = "Simplex"
    THEN {jk \in (RunArgs \ {Infinity}) \X (RunArgs \ {Infinity}) :
             th.iterations + jk[1] + jk[2] <= MaxSimplexSteps}
    ELSE RunArgs \X RunArgs

\* C29: for both engines and a target that does not throw: run(j) followed by
\* run(k) leaves the engine in the same state, and returns the same result(),
\* as run(j + k) on an engine in the state this one was in
C29_RunsCompose ==
    (pc = "idle" /\ \A m \in memo : ~ m.threw) =>
        \A jk \in RunPairs(this) :
            /\ run(run(this, jk[1]), jk[2]) = run(this, Plus(jk[1], jk[2]))
            /\ result(run(run(this, jk[1]), jk[2])) =
                  result(run(this, Plus(jk[1], jk[2])))

C29_Witness ==
    /\ engine = "Brent"
    /\ pc = "idle"
    /\ last.op = "run"
    /\ last.arg = 1
    /\ last.steps = 1
    /\ \A m \in memo : ~ m.threw
    /\ run(this, 1) # this
    /\ run(this, 2) # run(this, 1)
    /\ ~ run(this, 2).converged
    /\ run(run(this, 2), Infinity).converged

\* C30: invert(f)(x) yields the negated value of f at x with the same data,
\* and the record f returned keeps f's own value, also when f returns the
\* same Result record at every call
C30_InvertLeavesRecord ==
    (engine = "invert" /\ last.op = "invert") =>
        /\ last.result.value = -BaseValue1(args.target.base, last.arg)
        /\ last.result.data =
              (IF args.target.rich THEN DataAt(last.arg) ELSE Null)
        /\ last.arg \in DOMAIN records =>
              records[last.arg].value = BaseValue1(args.target.base, last.arg)

====
